---- MODULE Spec2Model ----
(***************************************************************************)
(* BitNames: the key_to_value table of BitNamesState (src/src/bitnames.rs) *)
(* and the three State methods that read or write it, driven by the host   *)
(* (ddk), which owns the heed transactions:                                *)
(*   validate_filled_transaction, validate_body  (read-only, RoTxn)        *)
(*   connect_body                                (writes, RwTxn)           *)
(* A heed get or put may fail; the engine's failure is an input of each    *)
(* call (heed_fail: the index of the storage operation of the call that    *)
(* fails, 0 for none).                                                     *)
(***************************************************************************)
EXTENDS Integers, Sequences, FiniteSets, TLC

\* ------------------------------------------------------------------ bounds
\* Number of distinct keys (Hash values used as keys).
NumKeys == 2
\* Number of distinct values (Hash values used as values).
NumValues == 2
\* Largest size of a body: the number of its outputs, all its transactions
\* together, a transaction without outputs counting for one.
MaxBodySize == 2
\* Largest block height the host passes.
MaxHeight == 1

Keys == 1..NumKeys
Values == 1..NumValues

\* Block heights (u32).
Heights == 0..MaxHeight

\* ddk::state::State, the host's ledger state, which BitNamesState never
\* reads: the ledger as it is at a height.
LedgerState(height) == [tip |-> height]

\* What the host passes beside the transaction and the argument: the height
\* and its ledger state.
HostContexts == {[height |-> h, state |-> LedgerState(h)] : h \in Heights}

\* ------------------------------------------------------------------- types
\* ddk::types::Content<BitName>: Value, Withdrawal, or Custom(BitName::KeyValue).
Content ==
    {[type |-> "Value"], [type |-> "Withdrawal"]}
        \cup {[type |-> "Custom", key |-> k, value |-> v] : k \in Keys, v \in Values}

\* ddk::types::Output<BitName> (the address plays no part here).
Output == {[content |-> c] : c \in Content}

\* Sequences of at most n outputs.
OutputSeqs(n) == UNION {[1..k -> Output] : k \in 0..n}

\* ddk::types::Transaction<BitName> with at most n outputs.
Transactions(n) == {[inputs |-> <<>>, outputs |-> os] : os \in OutputSeqs(n)}

\* ddk::types::FilledTransaction<BitName>.
FilledTransactions ==
    {[spent_utxos |-> <<>>, transaction |-> t] : t \in Transactions(MaxBodySize)}

\* What a transaction takes of a body's size.
TransactionSize(t) == IF Len(t.outputs) = 0 THEN 1 ELSE Len(t.outputs)

RECURSIVE TransactionSeqs(_)
\* Sequences of transactions of at most the given size together.
TransactionSeqs(size) ==
    {<<>>} \cup
    UNION {{<<t>> \o rest : rest \in TransactionSeqs(size - TransactionSize(t))} :
           t \in {u \in Transactions(size) : TransactionSize(u) <= size}}

\* ddk::types::Body<Authorization, BitName>.
Bodies == {[transactions |-> ts] : ts \in TransactionSeqs(MaxBodySize)}

\* ------------------------------------------------ heed Database<Hash, Hash>
\* A table (or a transaction's view of it) is a function from the keys
\* present to their values.
EmptyTable == <<>>

\* Database::get on a transaction's view: Option<Hash> as a set of at most
\* one value.
get(txn, key) == IF key \in DOMAIN txn THEN {txn[key]} ELSE {}

\* Option::is_some.
is_some(opt) == opt # {}

\* Faulty variant of put: an insert that keeps the value of a key already
\* present (a put that does not overwrite).
put_no_overwrite(txn, key, value) ==
    [k \in (DOMAIN txn) \cup {key} |->
        IF k \in DOMAIN txn THEN txn[k] ELSE value]

\* Database::put on a write transaction's view: insert or overwrite.
put(txn, key, value) ==
    [k \in (DOMAIN txn) \cup {key} |-> IF k = key THEN value ELSE txn[k]]

\* ------------------------------------------------------------- the methods
RECURSIVE validate_outputs(_, _, _, _, _)
\* The loop of validate_keys_unique from output i on. gets is the log of the
\* lookups the call has made so far: the key, and whether the engine failed.
validate_outputs(txn, outputs, i, heed_fail, gets) ==
    IF i > Len(outputs)
    THEN [result |-> "Ok", gets |-> gets]
    ELSE IF outputs[i].content.type = "Custom"
         THEN LET key == outputs[i].content.key
              IN IF Len(gets) + 1 = heed_fail
                 THEN [result |-> "Heed",
                       gets |-> Append(gets, [key |-> key, err |-> TRUE])]
                 ELSE IF is_some(get(txn, key))
                      THEN [result |-> "KeyAlreadyExists",
                            gets |-> Append(gets, [key |-> key, err |-> FALSE])]
                      ELSE validate_outputs(txn, outputs, i + 1, heed_fail,
                               Append(gets, [key |-> key, err |-> FALSE]))
         ELSE validate_outputs(txn, outputs, i + 1, heed_fail, gets)

\* Faulty variant of validate_keys_unique: an output that is not a key-value
\* claim is rejected instead of skipped.
validate_keys_unique_rejecting_others(txn, transaction, heed_fail, gets) ==
    IF \E i \in DOMAIN transaction.outputs :
           transaction.outputs[i].content.type # "Custom"
    THEN [result |-> "KeyAlreadyExists", gets |-> gets]
    ELSE validate_outputs(txn, transaction.outputs, 1, heed_fail, gets)

\* Variant of validate_keys_unique with the rule tightened: a transaction
\* whose outputs claim one key twice is rejected too.
validate_keys_unique_among_outputs(txn, transaction, heed_fail, gets) ==
    LET r == validate_outputs(txn, transaction.outputs, 1, heed_fail, gets)
        outputs == transaction.outputs
        twice == \E i, j \in DOMAIN outputs :
                    /\ i # j
                    /\ outputs[i].content.type = "Custom"
                    /\ outputs[j].content.type = "Custom"
                    /\ outputs[i].content.key = outputs[j].content.key
    IN IF r.result = "Ok" /\ twice
       THEN [r EXCEPT !.result = "KeyAlreadyExists"]
       ELSE r

\* Faulty variant of validate_keys_unique: a claim whose key the table holds
\* with the claimed value is accepted (only another value is rejected).
validate_keys_unique_same_value_accepted(txn, transaction, heed_fail, gets) ==
    LET outputs == transaction.outputs
        same == {k \in DOMAIN txn :
                    \E i \in DOMAIN outputs :
                        /\ outputs[i].content.type = "Custom"
                        /\ outputs[i].content.key = k
                        /\ outputs[i].content.value = txn[k]}
    IN validate_outputs([k \in (DOMAIN txn) \ same |-> txn[k]], outputs, 1,
           heed_fail, gets)

\* BitNamesState::validate_keys_unique.
validate_keys_unique(txn, transaction, heed_fail, gets) ==
    validate_outputs(txn, transaction.outputs, 1, heed_fail, gets)

\* Faulty variant of validate_filled_transaction: the check is left out.
validate_filled_transaction_unchecked(txn, height, state, transaction, heed_fail) ==
    [result |-> "Ok", gets |-> <<>>]

\* BitNamesState::validate_filled_transaction.
validate_filled_transaction(txn, height, state, transaction, heed_fail) ==
    validate_keys_unique(txn, transaction.transaction, heed_fail, <<>>)

RECURSIVE validate_transactions_scanning_on(_, _, _, _, _)
\* Faulty variant of validate_transactions: after a transaction failed the
\* remaining ones are still looked up, and the first error is returned.
validate_transactions_scanning_on(txn, transactions, j, heed_fail, gets) ==
    IF j > Len(transactions)
    THEN [result |-> "Ok", gets |-> gets]
    ELSE LET r == validate_keys_unique(txn, transactions[j], heed_fail, gets)
             rest == validate_transactions_scanning_on(txn, transactions, j + 1,
                         heed_fail, r.gets)
         IN IF r.result # "Ok"
            THEN [result |-> r.result, gets |-> rest.gets]
            ELSE rest

RECURSIVE validate_transactions(_, _, _, _, _)
\* The loop of validate_body from transaction j on.
validate_transactions(txn, transactions, j, heed_fail, gets) ==
    IF j > Len(transactions)
    THEN [result |-> "Ok", gets |-> gets]
    ELSE LET r == validate_keys_unique(txn, transactions[j], heed_fail, gets)
         IN IF r.result # "Ok"
            THEN r
            ELSE validate_transactions(txn, transactions, j + 1, heed_fail, r.gets)

\* Faulty variant of validate_body: the check is left out.
validate_body_unchecked(txn, height, state, body, heed_fail) ==
    [result |-> "Ok", gets |-> <<>>]

\* Variant of validate_body with the rule tightened: a body that claims one
\* key twice is rejected too.
validate_body_rejecting_duplicates(txn, height, state, body, heed_fail) ==
    LET r == validate_transactions(txn, body.transactions, 1, heed_fail, <<>>)
        twice == \E i, j \in DOMAIN r.gets : i # j /\ r.gets[i].key = r.gets[j].key
    IN IF r.result = "Ok" /\ twice
       THEN [r EXCEPT !.result = "KeyAlreadyExists"]
       ELSE r

\* Faulty variant of validate_body: a failed lookup makes it start over, once.
validate_body_retrying(txn, height, state, body, heed_fail) ==
    LET r == validate_transactions(txn, body.transactions, 1, heed_fail, <<>>)
    IN IF r.result = "Heed"
       THEN validate_transactions(txn, body.transactions, 1, 0, r.gets)
       ELSE r

\* Faulty variant of validate_body: the body at height 0 is exempt from the
\* check.
validate_body_genesis_exempt(txn, height, state, body, heed_fail) ==
    IF height = 0
    THEN [result |-> "Ok", gets |-> <<>>]
    ELSE validate_transactions(txn, body.transactions, 1, heed_fail, <<>>)

\* BitNamesState::validate_body.
validate_body(txn, height, state, body, heed_fail) ==
    validate_transactions(txn, body.transactions, 1, heed_fail, <<>>)

RECURSIVE connect_outputs(_, _, _, _, _)
\* The inner loop of connect_body from output i on. puts is the log of the
\* puts the call has made so far.
connect_outputs(txn, outputs, i, heed_fail, puts) ==
    IF i > Len(outputs)
    THEN [result |-> "Ok", txn |-> txn, puts |-> puts]
    ELSE IF outputs[i].content.type = "Custom"
         THEN LET key == outputs[i].content.key
                  value == outputs[i].content.value
              IN IF Len(puts) + 1 = heed_fail
                 THEN [result |-> "Heed", txn |-> txn,
                       puts |-> Append(puts,
                           [key |-> key, value |-> value, err |-> TRUE])]
                 ELSE connect_outputs(put(txn, key, value), outputs, i + 1,
                          heed_fail,
                          Append(puts,
                              [key |-> key, value |-> value, err |-> FALSE]))
         ELSE connect_outputs(txn, outputs, i + 1, heed_fail, puts)

RECURSIVE connect_transactions(_, _, _, _, _)
\* The outer loop of connect_body from transaction j on.
connect_transactions(txn, transactions, j, heed_fail, puts) ==
    IF j > Len(transactions)
    THEN [result |-> "Ok", txn |-> txn, puts |-> puts]
    ELSE LET r == connect_outputs(txn, transactions[j].outputs, 1, heed_fail, puts)
         IN IF r.result # "Ok"
            THEN r
            ELSE connect_transactions(r.txn, transactions, j + 1, heed_fail, r.puts)

\* Faulty variant of connect_body: only the first transaction is connected.
connect_body_first_transaction(txn, height, state, body, heed_fail) ==
    connect_transactions(txn,
        IF body.transactions = <<>> THEN <<>> ELSE <<body.transactions[1]>>,
        1, heed_fail, <<>>)

\* Faulty variant of connect_body: the error of a failed put is dropped.
connect_body_dropping_error(txn, height, state, body, heed_fail) ==
    [connect_transactions(txn, body.transactions, 1, heed_fail, <<>>)
        EXCEPT !.result = "Ok"]

\* Variant of connect_body with the uniqueness check made again before the
\* puts.
connect_body_checking(txn, height, state, body, heed_fail) ==
    IF validate_transactions(txn, body.transactions, 1, 0, <<>>).result
           = "KeyAlreadyExists"
    THEN [result |-> "KeyAlreadyExists", txn |-> txn, puts |-> <<>>]
    ELSE connect_transactions(txn, body.transactions, 1, heed_fail, <<>>)

\* Faulty variant of connect_body: the puts go to an emptied table.
connect_body_clearing(txn, height, state, body, heed_fail) ==
    connect_transactions(EmptyTable, body.transactions, 1, heed_fail, <<>>)

\* BitNamesState::connect_body.
connect_body(txn, height, state, body, heed_fail) ==
    connect_transactions(txn, body.transactions, 1, heed_fail, <<>>)

\* The key-value claims of a sequence of outputs, in output order (the
\* outputs the match arms of validate_keys_unique and connect_body select).
Claims(outputs) ==
    SelectSeq(outputs, LAMBDA o : o.content.type = "Custom")

RECURSIVE ClaimsFrom(_, _)
\* The claims of transactions j.. of a sequence, in iteration order.
ClaimsFrom(transactions, j) ==
    IF j > Len(transactions)
    THEN <<>>
    ELSE Claims(transactions[j].outputs) \o ClaimsFrom(transactions, j + 1)

\* The claims of a body: transactions in body order, outputs in
\* transaction order.
BodyClaims(body) == ClaimsFrom(body.transactions, 1)

\* ------------------------------------------------------------------- state
VARIABLES
    key_to_value,   \* the committed key_to_value table
    rw_txn,         \* the view of the host's write transaction (the committed
                    \* table when none is open)
    pc,             \* the host's position: idle, validated, connected,
                    \* committed, aborted
    call,           \* the last call into BitNamesState: method, argument,
                    \* the table the transaction was opened on, result, and
                    \* the log of its storage operations
    prev,           \* the result of the preceding validation of the same
                    \* argument under the same read transaction, or "none"
    pending         \* the bodies a concurrent reader has validated with Ok
                    \* and handed to the writer, each with the snapshot it
                    \* was validated on

vars == <<key_to_value, rw_txn, pc, call, prev, pending>>

NoCall ==
    [op |-> "none", arg |-> <<>>, snapshot |-> EmptyTable,
     result |-> "none", log |-> <<>>]

\* BitNamesState::new on a fresh environment: the table exists and is empty.
Init ==
    /\ key_to_value = EmptyTable
    /\ rw_txn = EmptyTable
    /\ pc = "idle"
    /\ call = NoCall
    /\ prev = "none"
    /\ pending = {}

\* The host opens a read transaction and validates one filled transaction.
ValidateFilledTransaction ==
    /\ pc = "idle"
    /\ \E transaction \in FilledTransactions :
         \E r \in {validate_filled_transaction(key_to_value, host.height,
                       host.state, transaction, heed_fail) :
                   host \in HostContexts,
                   heed_fail \in 0..Len(Claims(transaction.transaction.outputs))} :
            call' = [op |-> "validate_filled_transaction", arg |-> transaction,
                        snapshot |-> key_to_value, result |-> r.result,
                        log |-> r.gets]
    /\ pc' = "validated"
    /\ prev' = "none"
    /\ UNCHANGED <<key_to_value, rw_txn, pending>>

\* Faulty variant of ValidateBody: a validation that reserves the keys it
\* accepted by writing them to the table.
ValidateBodyReserving ==
    /\ pc = "idle"
    /\ \E body \in Bodies, host \in HostContexts :
         \E heed_fail \in 0..Len(BodyClaims(body)) :
            LET r == validate_body(key_to_value, host.height, host.state,
                         body, heed_fail)
            IN /\ call' = [op |-> "validate_body", arg |-> body,
                           snapshot |-> key_to_value, result |-> r.result,
                           log |-> r.gets]
               /\ key_to_value' =
                     IF r.result = "Ok"
                     THEN connect_body(key_to_value, host.height, host.state,
                              body, 0).txn
                     ELSE key_to_value
    /\ pc' = "validated"
    /\ prev' = "none"
    /\ UNCHANGED <<rw_txn, pending>>

\* The host opens a read transaction and validates one block body.
ValidateBody ==
    /\ pc = "idle"
    /\ \E body \in Bodies :
         \E r \in {validate_body(key_to_value, host.height, host.state,
                       body, heed_fail) :
                   host \in HostContexts, heed_fail \in 0..Len(BodyClaims(body))} :
            call' = [op |-> "validate_body", arg |-> body,
                        snapshot |-> key_to_value, result |-> r.result,
                        log |-> r.gets]
    /\ pc' = "validated"
    /\ prev' = "none"
    /\ UNCHANGED <<key_to_value, rw_txn, pending>>

\* The host validates the same argument once more under the same read
\* transaction (the engine may fail differently this time).
ValidateAgain ==
    /\ pc = "validated"
    /\ prev = "none"
    /\ \/ /\ call.op = "validate_filled_transaction"
          /\ \E r \in {validate_filled_transaction(call.snapshot, host.height,
                          host.state, call.arg, heed_fail) :
                      host \in HostContexts,
                      heed_fail \in 0..Len(Claims(call.arg.transaction.outputs))} :
               call' = [call EXCEPT !.result = r.result, !.log = r.gets]
       \/ /\ call.op = "validate_body"
          /\ \E r \in {validate_body(call.snapshot, host.height, host.state,
                          call.arg, heed_fail) :
                      host \in HostContexts, heed_fail \in 0..Len(BodyClaims(call.arg))} :
               call' = [call EXCEPT !.result = r.result, !.log = r.gets]
    /\ prev' = call.result
    /\ UNCHANGED <<key_to_value, rw_txn, pc, pending>>

\* The host opens a write transaction and connects the body it has just
\* validated ("assuming the body is valid").
ConnectBody ==
    /\ pc = "validated"
    /\ call.op = "validate_body"
    /\ call.result = "Ok"
    /\ \E r \in {connect_body(key_to_value, host.height, host.state,
                    call.arg, heed_fail) :
                host \in HostContexts, heed_fail \in 0..Len(BodyClaims(call.arg))} :
            /\ rw_txn' = r.txn
            /\ call' = [op |-> "connect_body", arg |-> call.arg,
                        snapshot |-> key_to_value, result |-> r.result,
                        log |-> r.puts]
    /\ pc' = "connected"
    /\ prev' = "none"
    /\ UNCHANGED <<key_to_value, pending>>

\* "if there are no errors, ddk calls txn.commit()".
HostCommit ==
    /\ pc = "connected"
    /\ call.result = "Ok"
    /\ key_to_value' = rw_txn
    /\ pc' = "committed"
    /\ UNCHANGED <<rw_txn, call, prev, pending>>

\* On an error the host drops the write transaction: its puts are discarded.
HostAbort ==
    /\ pc = "connected"
    /\ call.result # "Ok"
    /\ rw_txn' = key_to_value
    /\ pc' = "aborted"
    /\ UNCHANGED <<key_to_value, call, prev, pending>>

\* The host is done with the candidate and drops its transaction.
HostRelease ==
    /\ pc \in {"validated", "committed", "aborted"}
    /\ pc' = "idle"
    /\ call' = NoCall
    /\ prev' = "none"
    /\ rw_txn' = key_to_value
    /\ UNCHANGED <<key_to_value, pending>>

\* The host's pipeline: validate a candidate, connect a valid body, commit
\* or abort, release.
Next ==
    \/ ValidateFilledTransaction
    \/ ValidateBody
    \/ ConnectBody
    \/ HostCommit
    \/ HostAbort
    \/ HostRelease

Spec == Init /\ [][Next]_vars

\* The pipeline of a host that may also validate a candidate twice.
NextRepeat ==
    \/ Next
    \/ ValidateAgain

SpecRepeat == Init /\ [][NextRepeat]_vars

\* A host that skips the validation: it opens a write transaction and
\* connects a body it has not validated (connect_body itself does not ask).
ConnectBodyUnvalidated ==
    /\ pc = "idle"
    /\ \E body \in Bodies :
         \E r \in {connect_body(key_to_value, host.height, host.state,
                       body, heed_fail) :
                   host \in HostContexts, heed_fail \in 0..Len(BodyClaims(body))} :
            /\ rw_txn' = r.txn
               /\ call' = [op |-> "connect_body", arg |-> body,
                           snapshot |-> key_to_value, result |-> r.result,
                           log |-> r.puts]
    /\ pc' = "connected"
    /\ prev' = "none"
    /\ UNCHANGED <<key_to_value, pending>>

\* The pipeline of a host that may also connect a body without validating
\* it.
NextUnvalidated ==
    \/ Next
    \/ ConnectBodyUnvalidated

SpecUnvalidated == Init /\ [][NextUnvalidated]_vars

\* A concurrent reader opens its own read transaction on the committed table
\* and validates a body; a body that passed waits for the single writer (one
\* at a time).
ValidateBodyConcurrently ==
    /\ pending = {}
    /\ \E body \in Bodies :
         /\ "Ok" \in {validate_body(key_to_value, host.height, host.state,
                          body, heed_fail).result :
                      host \in HostContexts,
                      heed_fail \in 0..Len(BodyClaims(body))}
         /\ pending' = {[body |-> body, snapshot |-> key_to_value]}
    /\ UNCHANGED <<key_to_value, rw_txn, pc, call, prev>>

\* The writer, free again, opens a write transaction on the table as it is
\* now and connects the body the concurrent reader had validated.
ConnectPending ==
    /\ pc = "idle"
    /\ \E p \in pending :
         \E r \in {connect_body(key_to_value, host.height, host.state,
                       p.body, heed_fail) :
                   host \in HostContexts,
                   heed_fail \in 0..Len(BodyClaims(p.body))} :
            /\ rw_txn' = r.txn
            /\ call' = [op |-> "connect_body", arg |-> p.body,
                        snapshot |-> key_to_value, result |-> r.result,
                        log |-> r.puts]
    /\ pending' = {}
    /\ pc' = "connected"
    /\ prev' = "none"
    /\ UNCHANGED key_to_value

\* Bodies validated concurrently on independent snapshots, their commits
\* serialized through the single writer: every connect_body follows an Ok of
\* validate_body for the body, on the snapshot it was validated on.
NextConcurrent ==
    \/ Next
    \/ ValidateBodyConcurrently
    \/ ConnectPending

SpecConcurrent == Init /\ [][NextConcurrent]_vars

\* ------------------------------------------------------- claim vocabulary
\* The key-value claims the last call was given, in iteration order.
ArgClaims ==
    IF call.op = "validate_filled_transaction"
    THEN Claims(call.arg.transaction.outputs)
    ELSE IF call.op = "none" THEN <<>> ELSE BodyClaims(call.arg)

\* The keys claimed by a sequence of claims.
ClaimedKeys(claims) == {claims[i].content.key : i \in DOMAIN claims}

\* The (key, value) pairs carried by a sequence of claims.
ClaimedPairs(claims) ==
    {<<claims[i].content.key, claims[i].content.value>> : i \in DOMAIN claims}

\* The (key, value) entries of a table.
Entries(table) == {<<k, table[k]>> : k \in DOMAIN table}

\* No storage operation of the last call failed.
NoHeedFailure == \A i \in DOMAIN call.log : ~call.log[i].err

\* The last call validated a body that claims a key the table already holds,
\* with another value than the table's.
ReclaimsOtherValue ==
    /\ pc = "validated"
    /\ call.op = "validate_body"
    /\ \E i \in DOMAIN ArgClaims :
         /\ ArgClaims[i].content.key \in DOMAIN call.snapshot
         /\ ArgClaims[i].content.value # call.snapshot[ArgClaims[i].content.key]

\* Every entry of the table the write transaction was opened on is still in
\* the committed table.
EntriesKept ==
    \A k \in DOMAIN call.snapshot :
        k \in DOMAIN key_to_value /\ key_to_value[k] = call.snapshot[k]

\* ------------------------------------------------------------------ claims
\* C1 as stated: under the host's discipline (connect_body only after
\* validate_body returned Ok for the body on the same table) a commit keeps
\* every entry the table had, and a later body that claims a held key K with
\* another value is rejected with KeyAlreadyExists, the table unchanged.
C1_WriteOnceRejectedWithKeyAlreadyExists ==
    /\ pc = "committed" => EntriesKept
    /\ ReclaimsOtherValue =>
         call.result = "KeyAlreadyExists" /\ key_to_value = call.snapshot

\* C1 as amended: a commit keeps every entry the table had, and a later body
\* that claims a held key with another value is never accepted: it is
\* rejected with KeyAlreadyExists when no lookup fails and with the storage
\* error (Heed) when one does; the table is unchanged either way.
C1_WriteOnce ==
    /\ pc = "committed" => EntriesKept
    /\ ReclaimsOtherValue =>
         /\ call.result = (IF NoHeedFailure THEN "KeyAlreadyExists" ELSE "Heed")
         /\ key_to_value = call.snapshot

\* C1's case: a table that holds K after an earlier commit, and a later body
\* claiming K with another value rejected with KeyAlreadyExists.
C1_Witness ==
    /\ ReclaimsOtherValue
    /\ call.result = "KeyAlreadyExists"
    /\ key_to_value = call.snapshot

\* C2 (invariant I2) as stated, as the step that yields it by induction from
\* the empty table: after each commit the table's entries are exactly the
\* entries it had before together with every (key, value) pair claimed by
\* the committed body, none missing and none unclaimed.
C2_TableEqualsClaimedPairs ==
    pc = "committed" =>
        Entries(key_to_value) = Entries(call.snapshot) \cup ClaimedPairs(ArgClaims)

\* C3: validate_filled_transaction on a transaction with an output claiming
\* a key the table holds returns KeyAlreadyExists when no storage failure
\* occurs, and leaves the table unchanged.
C3_Rejection ==
    (/\ pc = "validated"
     /\ call.op = "validate_filled_transaction"
     /\ ClaimedKeys(ArgClaims) \cap DOMAIN call.snapshot # {}
     /\ NoHeedFailure)
        => call.result = "KeyAlreadyExists" /\ key_to_value = call.snapshot

\* C3's case: a transaction claiming a held key, with another value than the
\* table's, rejected.
C3_Witness ==
    /\ pc = "validated"
    /\ call.op = "validate_filled_transaction"
    /\ \E i \in DOMAIN ArgClaims :
         /\ ArgClaims[i].content.key \in DOMAIN call.snapshot
         /\ ArgClaims[i].content.value # call.snapshot[ArgClaims[i].content.key]
    /\ call.result = "KeyAlreadyExists"
    /\ key_to_value = call.snapshot

\* C4 as stated: a validation never changes the table, whatever its result,
\* and a second validation of the same argument under the same read
\* transaction returns the result of the first.
C4_ReadOnlySameResultTwice ==
    pc = "validated" =>
        /\ key_to_value = call.snapshot
        /\ rw_txn = call.snapshot
        /\ prev # "none" => call.result = prev

\* C4 as amended: a validation never changes the table, whatever its result
\* (Ok, KeyAlreadyExists or Heed), and two validations of the same argument
\* under the same read transaction return the same result when no lookup
\* fails in either of them.
C4_ReadOnlyRepeatable ==
    pc = "validated" =>
        /\ key_to_value = call.snapshot
        /\ rw_txn = call.snapshot
        /\ (prev # "none" /\ prev # "Heed" /\ NoHeedFailure) => call.result = prev

\* C4's case: a body rejected with KeyAlreadyExists twice under the same
\* read transaction, the table as it was.
C4_Witness ==
    /\ pc = "validated"
    /\ call.op = "validate_body"
    /\ prev = "KeyAlreadyExists"
    /\ call.result = "KeyAlreadyExists"
    /\ key_to_value = call.snapshot

\* The claims of the last call have pairwise distinct keys, none of them in
\* the table the call's transaction was opened on.
DistinctFreshKeys ==
    /\ \A i, j \in DOMAIN ArgClaims :
         i # j => ArgClaims[i].content.key # ArgClaims[j].content.key
    /\ ClaimedKeys(ArgClaims) \cap DOMAIN call.snapshot = {}

\* C5: after connect_body returned Ok on a body whose claims have pairwise
\* distinct keys, none in the table, and the host committed, a lookup of each
\* claimed key returns its claimed value and every earlier entry is kept.
C5_CommitCorrectness ==
    (pc = "committed" /\ DistinctFreshKeys) =>
        /\ \A i \in DOMAIN ArgClaims :
             get(key_to_value, ArgClaims[i].content.key)
                 = {ArgClaims[i].content.value}
        /\ \A k \in DOMAIN call.snapshot :
             get(key_to_value, k) = {call.snapshot[k]}

\* C5's case: a committed body with two claims of distinct keys, spread over
\* two transactions, on a table that already held an entry or not.
C5_Witness ==
    /\ pc = "committed"
    /\ DistinctFreshKeys
    /\ Len(ArgClaims) = 2
    /\ Len(call.arg.transactions) = 2
    /\ \A i \in DOMAIN ArgClaims :
         get(key_to_value, ArgClaims[i].content.key) = {ArgClaims[i].content.value}

\* C6: a transaction or body without any key-value claim passes
\* validate_filled_transaction and validate_body with Ok on every table;
\* connect_body on such a body returns Ok and leaves the table as it was,
\* in the write transaction and after the commit.
C6_NonClaimIgnored ==
    (call.op # "none" /\ ArgClaims = <<>>) =>
        /\ call.result = "Ok"
        /\ rw_txn = call.snapshot
        /\ key_to_value = call.snapshot

\* C6's case: a committed body of plain outputs only, on a table with an
\* entry, which is unchanged.
C6_Witness ==
    /\ pc = "committed"
    /\ ArgClaims = <<>>
    /\ \E i \in DOMAIN call.arg.transactions :
         Len(call.arg.transactions[i].outputs) > 0
    /\ call.snapshot # EmptyTable
    /\ key_to_value = call.snapshot

\* The last call was given a body of two transactions T1, T2, each carrying
\* one claim, both of the same key, absent from the table, with different
\* values.
GapBody ==
    /\ call.op \in {"validate_body", "connect_body"}
    /\ Len(call.arg.transactions) = 2
    /\ Len(Claims(call.arg.transactions[1].outputs)) = 1
    /\ Len(Claims(call.arg.transactions[2].outputs)) = 1
    /\ ArgClaims[1].content.key = ArgClaims[2].content.key
    /\ ArgClaims[1].content.value # ArgClaims[2].content.value
    /\ ArgClaims[1].content.key \notin DOMAIN call.snapshot

\* C7 as stated: on such a body validate_body returns Ok, and after
\* connect_body the table (the write transaction's view, and the committed
\* table after the commit) maps K to V2, the value of T2.
C7_GapLastWriteWins ==
    GapBody =>
        /\ pc = "validated" => call.result = "Ok"
        /\ pc = "connected" =>
             get(rw_txn, ArgClaims[2].content.key) = {ArgClaims[2].content.value}
        /\ pc = "committed" =>
             get(key_to_value, ArgClaims[2].content.key) = {ArgClaims[2].content.value}

\* C7 as amended: on such a body validate_body returns Ok unless a lookup
\* fails, and after a connect_body that returned Ok the table (the write
\* transaction's view, and the committed table after the commit) maps K to
\* V2, the value of T2.
C7_GapLastWriteWinsOnOk ==
    GapBody =>
        /\ (pc = "validated" /\ NoHeedFailure) => call.result = "Ok"
        /\ (pc = "connected" /\ call.result = "Ok") =>
             get(rw_txn, ArgClaims[2].content.key) = {ArgClaims[2].content.value}
        /\ pc = "committed" =>
             get(key_to_value, ArgClaims[2].content.key) = {ArgClaims[2].content.value}

\* C7's case: such a body committed, the table holding T2's value for K.
C7_Witness ==
    /\ GapBody
    /\ pc = "committed"
    /\ get(key_to_value, ArgClaims[2].content.key) = {ArgClaims[2].content.value}
    /\ get(key_to_value, ArgClaims[1].content.key) # {ArgClaims[1].content.value}

\* C8: absent storage failures validate_body returns Ok if and only if no
\* claim of any transaction of the body has a key present in the read
\* snapshot, and KeyAlreadyExists otherwise: the other claims of the body
\* (duplicates among siblings included) play no part.
C8_ValidateBodyByCommittedKeys ==
    (pc = "validated" /\ call.op = "validate_body" /\ NoHeedFailure) =>
        call.result =
            (IF ClaimedKeys(ArgClaims) \cap DOMAIN call.snapshot = {}
             THEN "Ok" ELSE "KeyAlreadyExists")

\* C8's case: a body whose second transaction claims a held key while its
\* first claims a fresh one: rejected as a whole.
C8_Witness ==
    /\ pc = "validated"
    /\ call.op = "validate_body"
    /\ Len(call.arg.transactions) = 2
    /\ Len(Claims(call.arg.transactions[1].outputs)) = 1
    /\ Len(Claims(call.arg.transactions[2].outputs)) = 1
    /\ ArgClaims[1].content.key \notin DOMAIN call.snapshot
    /\ ArgClaims[2].content.key \in DOMAIN call.snapshot
    /\ call.result = "KeyAlreadyExists"

\* C9: when a put of connect_body fails, connect_body returns an error and,
\* once the host has dealt with the write transaction, the committed table is
\* the one the call started from: no put made before the failure is visible
\* to a later transaction.
C9_AtomicOnFailure ==
    (call.op = "connect_body" /\ ~NoHeedFailure) =>
        /\ call.result # "Ok"
        /\ key_to_value = call.snapshot
        /\ pc # "connected" => (pc = "aborted" /\ rw_txn = call.snapshot)

\* C9's case: the second put of a connect_body failed after the first had
\* succeeded, the host aborted, and the table is the one before the call.
C9_Witness ==
    /\ pc = "aborted"
    /\ call.op = "connect_body"
    /\ Len(call.log) = 2
    /\ ~call.log[1].err
    /\ call.log[2].err
    /\ key_to_value = call.snapshot
    /\ rw_txn = call.snapshot

\* C10: a failed lookup or put is the last storage operation of its call (no
\* retry, nothing after it), the storage operations made are the first ones
\* of the argument's claims in iteration order, and the call returns Heed if
\* and only if one of them failed.
C10_StorageFailurePropagated ==
    call.op # "none" =>
        /\ Len(call.log) <= Len(ArgClaims)
        /\ \A i \in DOMAIN call.log :
             /\ call.log[i].key = ArgClaims[i].content.key
             /\ call.log[i].err => i = Len(call.log)
        /\ call.result = "Heed" <=> ~NoHeedFailure

\* C10's case: a validate_body whose second lookup failed after the first
\* had found nothing, returning Heed.
C10_Witness ==
    /\ call.op = "validate_body"
    /\ call.result = "Heed"
    /\ Len(call.log) = 2
    /\ ~call.log[1].err
    /\ call.log[2].err

\* The outputs with the value of every key-value claim replaced (the keys
\* and the other outputs kept).
WithValues(outputs, value) ==
    [i \in DOMAIN outputs |->
        IF outputs[i].content.type = "Custom"
        THEN [content |-> [type |-> "Custom", key |-> outputs[i].content.key,
                           value |-> value]]
        ELSE outputs[i]]

\* The transactions with the outputs of the given one up to the values of
\* the claims, and with other inputs.
TransactionVariants(transaction) ==
    {[inputs |-> ins, outputs |-> WithValues(transaction.outputs, v)] :
        ins \in {<<>>, <<"outpoint">>}, v \in Values}

\* The results of validating, on the snapshot of the last validation, its
\* argument with other claim values, inputs and spent UTXOs, at every height
\* with its ledger state, with the storage failing as given.
Revalidations(heed_fails) ==
    IF call.op = "validate_filled_transaction"
    THEN {validate_filled_transaction(call.snapshot, host.height, host.state,
              [spent_utxos |-> su, transaction |-> t], f).result :
              host \in HostContexts,
              su \in {<<>>, <<[content |-> [type |-> "Value"]]>>},
              t \in TransactionVariants(call.arg.transaction), f \in heed_fails}
    ELSE {validate_body(call.snapshot, host.height, host.state,
              [transactions |->
                  [j \in DOMAIN call.arg.transactions |->
                      [inputs |-> ins,
                       outputs |-> WithValues(call.arg.transactions[j].outputs, v)]]],
              f).result :
              host \in HostContexts, ins \in {<<>>, <<"outpoint">>},
              v \in Values, f \in heed_fails}

\* C11 as stated: a validation of the same outputs on the same snapshot has
\* the same result whatever the height, the ledger state, the inputs, the
\* spent UTXOs and the values of the claims are (and whatever the storage
\* does in that call).
C11_ResultDependsOnKeysOnly ==
    pc = "validated" =>
        Revalidations(0..Len(ArgClaims)) = {call.result}

\* C11, amended: when no lookup fails in either call, a validation of the
\* same outputs on the same snapshot has the same result whatever the height,
\* the ledger state, the inputs, the spent UTXOs and the values of the claims
\* are.
C11_ResultDependsOnKeysOnlyAbsentFailure ==
    (pc = "validated" /\ NoHeedFailure) =>
        Revalidations({0}) = {call.result}

\* C11's case: a body rejected for a key the snapshot holds with another
\* value than the claimed one, rejected likewise with every other value,
\* height, ledger state and inputs.
C11_Witness ==
    /\ ReclaimsOtherValue
    /\ NoHeedFailure
    /\ call.result = "KeyAlreadyExists"
    /\ Revalidations({0}) = {"KeyAlreadyExists"}

\* The i-th lookup of the last validation failed or found its key.
LookupFailed(i) ==
    call.log[i].err \/ call.log[i].key \in DOMAIN call.snapshot

\* C13: a validation looks the claimed keys up in iteration order (for
\* validate_body transaction order, then output order) and returns at the
\* first lookup that finds its key or fails: every lookup before the last
\* found nothing, no claim after a failed lookup is looked up, the error is
\* that of the failed lookup, and Ok is returned only after every claim was
\* looked up and none failed.
C13_ScanStopsAtFirstFailure ==
    pc = "validated" =>
        /\ Len(call.log) <= Len(ArgClaims)
        /\ \A i \in DOMAIN call.log :
             /\ call.log[i].key = ArgClaims[i].content.key
             /\ LookupFailed(i) => i = Len(call.log)
        /\ call.result = "Ok" <=>
               /\ Len(call.log) = Len(ArgClaims)
               /\ \A i \in DOMAIN call.log : ~LookupFailed(i)
        /\ call.result # "Ok" =>
               call.result = IF call.log[Len(call.log)].err
                             THEN "Heed" ELSE "KeyAlreadyExists"

\* C13's case: a body of two claiming transactions whose keys the snapshot
\* both holds, rejected at the first one; the second was not looked up.
C13_Witness ==
    /\ pc = "validated"
    /\ call.op = "validate_body"
    /\ Len(call.arg.transactions) = 2
    /\ Len(ArgClaims) = 2
    /\ ClaimedKeys(ArgClaims) \subseteq DOMAIN call.snapshot
    /\ ArgClaims[1].content.key # ArgClaims[2].content.key
    /\ call.result = "KeyAlreadyExists"
    /\ Len(call.log) = 1
    /\ call.log[1].key = ArgClaims[1].content.key

\* The last call was given a single transaction (alone in its body for
\* validate_body and connect_body) with two outputs claiming the same key K,
\* absent from the table, with values V1 then V2.
DuplicateTransaction ==
    /\ call.op # "none"
    /\ call.op # "validate_filled_transaction" => Len(call.arg.transactions) = 1
    /\ Len(ArgClaims) = 2
    /\ ArgClaims[1].content.key = ArgClaims[2].content.key
    /\ ArgClaims[1].content.value # ArgClaims[2].content.value
    /\ ArgClaims[1].content.key \notin DOMAIN call.snapshot

\* C16 as stated: such a transaction passes validate_filled_transaction and
\* validate_body with Ok, and after connect_body the table (the write
\* transaction's view, and the committed table after the commit) maps K to
\* V2, the value of the later output.
C16_DuplicateOutputsLastWins ==
    DuplicateTransaction =>
        /\ pc = "validated" => call.result = "Ok"
        /\ pc = "connected" =>
             get(rw_txn, ArgClaims[2].content.key) = {ArgClaims[2].content.value}
        /\ pc = "committed" =>
             get(key_to_value, ArgClaims[2].content.key) = {ArgClaims[2].content.value}

\* C16, amended: such a transaction passes validate_filled_transaction and
\* validate_body with Ok unless a lookup fails, and after a connect_body that
\* returned Ok the table (the write transaction's view, and the committed
\* table after the commit) maps K to V2, the value of the later output.
C16_DuplicateOutputsLastWinsOnOk ==
    DuplicateTransaction =>
        /\ (pc = "validated" /\ NoHeedFailure) => call.result = "Ok"
        /\ (pc = "connected" /\ call.result = "Ok") =>
             get(rw_txn, ArgClaims[2].content.key) = {ArgClaims[2].content.value}
        /\ pc = "committed" =>
             get(key_to_value, ArgClaims[2].content.key) = {ArgClaims[2].content.value}

\* C16's case: a body of one such transaction committed, the table holding
\* the later output's value for K.
C16_Witness ==
    /\ DuplicateTransaction
    /\ pc = "committed"
    /\ Len(Claims(call.arg.transactions[1].outputs)) = 2
    /\ get(key_to_value, ArgClaims[2].content.key) = {ArgClaims[2].content.value}

\* C12 as stated: connect_body never returns KeyAlreadyExists, and on a body
\* with a claim (K, V2) while the table already maps K to some value it
\* returns Ok and the table afterwards (the write transaction's view, and the
\* committed table after the commit) maps K to V2.
C12_ConnectOverwrites ==
    (call.op = "connect_body" /\ pc \in {"connected", "committed"}) =>
        /\ call.result # "KeyAlreadyExists"
        /\ \A i \in DOMAIN ArgClaims :
             ArgClaims[i].content.key \in DOMAIN call.snapshot =>
                /\ call.result = "Ok"
                /\ get(rw_txn, ArgClaims[i].content.key)
                       = {ArgClaims[i].content.value}
                /\ pc = "committed" =>
                       get(key_to_value, ArgClaims[i].content.key)
                           = {ArgClaims[i].content.value}

\* C12, amended: connect_body never returns KeyAlreadyExists, and on a body
\* with a claim (K, V2) while the table already maps K to some value it
\* returns Ok unless a put fails, and after it returned Ok the table (the
\* write transaction's view, and the committed table after the commit) maps K
\* to V2 when no later claim of the body has the key K.
C12_ConnectOverwritesOnOk ==
    (call.op = "connect_body" /\ pc \in {"connected", "committed"}) =>
        /\ call.result # "KeyAlreadyExists"
        /\ \A i \in DOMAIN ArgClaims :
             ArgClaims[i].content.key \in DOMAIN call.snapshot =>
                /\ NoHeedFailure => call.result = "Ok"
                /\ ( /\ call.result = "Ok"
                     /\ \A j \in DOMAIN ArgClaims :
                          j > i => ArgClaims[j].content.key
                                      # ArgClaims[i].content.key ) =>
                      /\ get(rw_txn, ArgClaims[i].content.key)
                             = {ArgClaims[i].content.value}
                      /\ pc = "committed" =>
                             get(key_to_value, ArgClaims[i].content.key)
                                 = {ArgClaims[i].content.value}

\* C12's case: a body claiming (K, V2) connected and committed on a table
\* that mapped K to another value; the table maps K to V2.
C12_Witness ==
    /\ pc = "committed"
    /\ call.op = "connect_body"
    /\ call.result = "Ok"
    /\ \E i \in DOMAIN ArgClaims :
         /\ ArgClaims[i].content.key \in DOMAIN call.snapshot
         /\ ArgClaims[i].content.value # call.snapshot[ArgClaims[i].content.key]
         /\ get(key_to_value, ArgClaims[i].content.key)
                = {ArgClaims[i].content.value}

\* C15: no step removes a key from the table, whatever the host validates,
\* connects (validated or not) and commits.
C15_KeySetOnlyGrows ==
    [][DOMAIN key_to_value \subseteq DOMAIN key_to_value']_vars

\* C15's case: a never-validated body that reclaims a held key and claims a
\* new one was committed; every key held before is held, and one more.
C15_Witness ==
    /\ pc = "committed"
    /\ ClaimedKeys(ArgClaims) \cap DOMAIN call.snapshot # {}
    /\ DOMAIN call.snapshot \subseteq DOMAIN key_to_value
    /\ DOMAIN call.snapshot # DOMAIN key_to_value

\* Every table over the model's keys and values.
AllTables == UNION {[D -> Values] : D \in SUBSET Keys}

\* The tables that hold every entry of the given one: the snapshots a later
\* read transaction can be opened on.
LaterTables(table) == {t \in AllTables : Entries(table) \subseteq Entries(t)}

\* The results of validating again, on the given snapshot, the body of the
\* last call and each of its transactions that carries a claim, with the
\* storage failing as given.
Replays(snapshot, heed_fails) ==
    {validate_body(snapshot, host.height, host.state, call.arg, f).result :
        host \in HostContexts, f \in heed_fails}
    \cup
    {validate_filled_transaction(snapshot, host.height, host.state,
         [spent_utxos |-> <<>>, transaction |-> call.arg.transactions[j]],
         f).result :
        host \in HostContexts, f \in heed_fails,
        j \in {i \in DOMAIN call.arg.transactions :
                  Claims(call.arg.transactions[i].outputs) # <<>>}}

\* The results of the replays of the body just committed, on every later
\* snapshot.
ReplayResults(heed_fails) ==
    UNION {Replays(t, heed_fails) : t \in LaterTables(key_to_value)}

\* A body with at least one key-value claim has just been committed.
ClaimsCommitted == pc = "committed" /\ ArgClaims # <<>>

\* C17 as stated: no step takes an entry out of the table, and once a body
\* with at least one claim is committed, validate_body of that body and
\* validate_filled_transaction of each of its claim-carrying transactions
\* return KeyAlreadyExists on every snapshot that holds the entries of the
\* table after the commit (whatever the storage does in that call).
C17_ReplayRejected ==
    [][/\ Entries(key_to_value) \subseteq Entries(key_to_value')
       /\ ClaimsCommitted' =>
             ReplayResults(0..Len(ArgClaims))' = {"KeyAlreadyExists"}]_vars

\* C17, amended: no step takes an entry out of the table, and once a body
\* with at least one claim is committed, validate_body of that body and
\* validate_filled_transaction of each of its claim-carrying transactions, on
\* every snapshot that holds the entries of the table after the commit,
\* return KeyAlreadyExists when no lookup fails, and never Ok.
C17_ReplayRejectedAbsentFailure ==
    [][/\ Entries(key_to_value) \subseteq Entries(key_to_value')
       /\ ClaimsCommitted' =>
             /\ ReplayResults({0})' = {"KeyAlreadyExists"}
             /\ "Ok" \notin ReplayResults(0..Len(ArgClaims))']_vars

\* C17's case: a body of two claims with distinct keys is validated on a
\* snapshot that holds exactly what its commit wrote, and rejected with
\* KeyAlreadyExists.
C17_Witness ==
    /\ pc = "validated"
    /\ call.op = "validate_body"
    /\ Len(ArgClaims) = 2
    /\ ArgClaims[1].content.key # ArgClaims[2].content.key
    /\ ClaimedPairs(ArgClaims) = Entries(call.snapshot)
    /\ NoHeedFailure
    /\ call.result = "KeyAlreadyExists"

\* C14: with bodies validated concurrently on independent snapshots and
\* committed one at a time by the single writer, each after an Ok of
\* validate_body on the snapshot it was validated on, a commit leaves every
\* key committed before it with its value, also the commit of a body that
\* was validated before that key was committed.
C14_NoOverwriteUnderConcurrentValidation ==
    pc = "committed" =>
        \A k \in DOMAIN call.snapshot :
            get(key_to_value, k) = get(call.snapshot, k)

====
